---- MODULE Spec2Model ----
(***************************************************************************)
(* Model of the motion-capture export pipeline of Project-Mcap:            *)
(*   smoothFrames  (exponential moving average over landmark frames),      *)
(*   generateBVH   (positional text exporter),                             *)
(*   generateFBX   (rotation exporter handing a clip to FBXExporter).      *)
(*                                                                         *)
(* Numbers.  A landmark coordinate is an integer c standing for            *)
(* c * 0.05 / Unit metres.  Raw input coordinates are multiples of Unit,   *)
(* and Unit = AlphaDen^(MaxFrames-1), so that every value the smoother     *)
(* produces with alpha = a/AlphaDen is again an integer: the arithmetic    *)
(* of the model is exact rational arithmetic.  Unit vectors and            *)
(* quaternions are fixed-point numbers with QOne standing for 1.0.         *)
(***************************************************************************)
EXTENDS Integers, Sequences, FiniteSets, TLC

\* ------------------------------------------------------------------ bounds
MaxFrames == 3
MaxTick == 2
AlphaDen == 2
ShortLen == 12

\* ------------------------------------------------------- program constants
NumLandmarks == 33
NOSE == 0
LEFT_SHOULDER == 11
RIGHT_SHOULDER == 12
LEFT_ELBOW == 13
RIGHT_ELBOW == 14
LEFT_WRIST == 15
RIGHT_WRIST == 16
LEFT_HIP == 23
RIGHT_HIP == 24
LEFT_KNEE == 25
RIGHT_KNEE == 26
LEFT_ANKLE == 27
RIGHT_ANKLE == 28

\* --------------------------------------------------------- number helpers
RECURSIVE Pow(_, _)
Pow(b, e) == IF e <= 0 THEN 1 ELSE b * Pow(b, e - 1)

Unit == Pow(AlphaDen, MaxFrames - 1)

Abs(n) == IF n < 0 THEN -n ELSE n

\* Round-to-nearest quotient n/d for d > 0 (halves away from zero).
RoundDiv(n, d) ==
  IF n >= 0 THEN (2 * n + d) \div (2 * d) ELSE -((2 * (-n) + d) \div (2 * d))

\* ------------------------------------------------------------- the inputs
\* Poses the pose estimator may deliver, in MediaPipe world coordinates
\* (x to the subject's right of the image, y down), in units of 0.05 m.
PoseIds == {"static", "tpose", "bent"}

StaticPose(idx) ==
  CASE idx = LEFT_HIP -> <<-2, 0, 0>>
    [] idx = RIGHT_HIP -> <<2, 0, 0>>
    [] idx = LEFT_SHOULDER -> <<-2, 10, 0>>
    [] idx = RIGHT_SHOULDER -> <<2, 10, 0>>
    [] OTHER -> <<0, 0, 0>>

TPose(idx) ==
  CASE idx = NOSE -> <<0, -13, 0>>
    [] idx = LEFT_SHOULDER -> <<-3, -10, 0>>
    [] idx = LEFT_ELBOW -> <<-8, -10, 0>>
    [] idx = LEFT_WRIST -> <<-13, -10, 0>>
    [] idx = RIGHT_SHOULDER -> <<3, -10, 0>>
    [] idx = RIGHT_ELBOW -> <<8, -10, 0>>
    [] idx = RIGHT_WRIST -> <<13, -10, 0>>
    [] idx = LEFT_HIP -> <<-2, 0, 0>>
    [] idx = RIGHT_HIP -> <<2, 0, 0>>
    [] idx = LEFT_KNEE -> <<-2, 8, 0>>
    [] idx = RIGHT_KNEE -> <<2, 8, 0>>
    [] idx = LEFT_ANKLE -> <<-2, 16, 0>>
    [] idx = RIGHT_ANKLE -> <<2, 16, 0>>
    [] OTHER -> <<0, 0, 0>>

BentPose(idx) ==
  CASE idx = NOSE -> <<1, -12, 2>>
    [] idx = LEFT_SHOULDER -> <<-3, -9, 1>>
    [] idx = LEFT_ELBOW -> <<-5, -5, 3>>
    [] idx = LEFT_WRIST -> <<-4, -2, 6>>
    [] idx = RIGHT_SHOULDER -> <<3, -10, -1>>
    [] idx = RIGHT_ELBOW -> <<6, -12, 0>>
    [] idx = RIGHT_WRIST -> <<8, -15, 2>>
    [] idx = LEFT_HIP -> <<-2, 0, 1>>
    [] idx = RIGHT_HIP -> <<2, 1, -1>>
    [] idx = LEFT_KNEE -> <<-3, 7, 4>>
    [] idx = RIGHT_KNEE -> <<2, 8, -2>>
    [] idx = LEFT_ANKLE -> <<-3, 15, 2>>
    [] idx = RIGHT_ANKLE -> <<3, 16, -3>>
    [] OTHER -> <<idx, 0, -idx>>

PoseCoord(p, idx) ==
  CASE p = "static" -> StaticPose(idx)
    [] p = "tpose" -> TPose(idx)
    [] OTHER -> BentPose(idx)

PoseVisibility(p, idx) ==
  CASE p = "static" -> 100
    [] p = "tpose" -> 90
    [] OTHER -> 40 + idx

\* The landmark object the estimator delivers for slot idx of pose p.
PoseLandmark(p, idx) ==
  [x |-> PoseCoord(p, idx)[1] * Unit,
   y |-> PoseCoord(p, idx)[2] * Unit,
   z |-> PoseCoord(p, idx)[3] * Unit,
   visibility |-> PoseVisibility(p, idx)]

\* Landmark array lengths: the full 33 slots, or an array cut short.
Lens == {NumLandmarks, ShortLen}

\* Strictly increasing timestamp sequences of length n over 0..MaxTick.
IncreasingTimes(n) ==
  {t \in [1..n -> 0..MaxTick] : \A k \in 1..n : k > 1 => t[k - 1] < t[k]}

Alphas == 1..AlphaDen

\* ------------------------------------------------------------------ state
VARIABLES
  pc,                \* control point of the call in progress
  heap,              \* landmark objects, addressed by reference (index)
  frames,            \* the caller's frame array: [timestamp, landmarks (refs)]
  alpha,             \* numerator of the smoothing factor alpha / AlphaDen
  smoothedFrames,    \* smoothFrames: the array being built
  previousLandmarks, \* smoothFrames: refs of the last emitted landmarks
  i,                 \* loop index (1-based position of the next frame)
  result,            \* outcome of the call: none / value / throw
  mutated,           \* the caller wrote to its input after the call
  bvh,               \* generateBVH: the text built so far, line by line
  positions,         \* exporters: bone name -> position of the last frame
  tracksData,        \* generateFBX: bone name -> [pos, rot] flat arrays
  globalQuats,       \* generateFBX: bone name -> global quaternion, last frame
  tracks,            \* generateFBX: keyframe tracks of the clip
  backendCalls,      \* calls made to FBXExporter.parse
  thrown,            \* the error FBXExporter.parse threw, "none" if none
  stage,             \* MotionProcessor: the ProcessingStage shown
  duration,          \* startProcessing: video.duration, in sampling intervals
  currentTime,       \* startProcessing: the seek position, in sampling intervals
  rawFrames,         \* startProcessing: the frames detected so far
  videoUrl,          \* MotionProcessor: "null", or the URL of the selected file
  poseLandmarker,    \* poseLandmarkerRef: "loading", "ready" or "failed"
  loops,             \* the startProcessing invocations in flight, each with
                     \* its own duration, currentTime and rawFrames
  currentFrameIndex, \* MotionProcessor: index of the frame shown
  isPlaying          \* MotionProcessor: playback is running

smoothVars == <<smoothedFrames, previousLandmarks>>
bvhVars == <<bvh>>
fbxVars == <<tracksData, globalQuats, tracks, backendCalls, thrown>>
pageVars == <<videoUrl, poseLandmarker, loops, currentFrameIndex, isPlaying>>
uiVars == <<stage, duration, currentTime, rawFrames, pageVars>>
vars == <<pc, heap, frames, alpha, smoothedFrames, previousLandmarks, i,
          result, mutated, bvh, positions, tracksData, globalQuats, tracks,
          backendCalls, thrown, stage, duration, currentTime, rawFrames,
          videoUrl, poseLandmarker, loops, currentFrameIndex, isPlaying>>

\* --------------------------------------------------------- input building
RECURSIVE Offset(_, _)
Offset(lens, k) == IF k <= 1 THEN 0 ELSE Offset(lens, k - 1) + lens[k - 1]

\* Heap holding the landmark objects of every input frame, frame after frame.
InputHeap(poses, lens) ==
  LET n == Len(poses)
      total == Offset(lens, n + 1)
      frameOf(r) == CHOOSE k \in 1..n : Offset(lens, k) < r /\ r <= Offset(lens, k + 1)
  IN [r \in 1..total |-> PoseLandmark(poses[frameOf(r)], r - Offset(lens, frameOf(r)) - 1)]

InputFrames(poses, lens, times) ==
  [k \in 1..Len(poses) |->
     [timestamp |-> times[k],
      landmarks |-> [j \in 1..lens[k] |-> Offset(lens, k) + j]]]

NoResult == [kind |-> "none", frames |-> <<>>, error |-> "none"]
Value(fs) == [kind |-> "value", frames |-> fs, error |-> "none"]
Throw(e) == [kind |-> "throw", frames |-> <<>>, error |-> e]

Init ==
  \E n \in 0..MaxFrames :
    \E poses \in [1..n -> PoseIds], lens \in [1..n -> Lens],
       times \in IncreasingTimes(n) :
      /\ frames = InputFrames(poses, lens, times)
      /\ heap = InputHeap(poses, lens)
      /\ alpha = 0
      /\ pc = "idle"
      /\ smoothedFrames = <<>>
      /\ previousLandmarks = <<>>
      /\ i = 0
      /\ result = NoResult
      /\ mutated = FALSE
      /\ bvh = <<>>
      /\ positions = <<>>
      /\ tracksData = <<>>
      /\ globalQuats = <<>>
      /\ tracks = <<>>
      /\ backendCalls = 0
      /\ thrown = "none"
      /\ stage = "IDLE"
      /\ duration = 0
      /\ currentTime = 0
      /\ rawFrames = <<>>
      /\ videoUrl = "null"
      /\ poseLandmarker = "loading"
      /\ loops = <<>>
      /\ currentFrameIndex = 0
      /\ isPlaying = FALSE

\* ----------------------------------------------------------- smoothFrames
\* `{ ...l }`: a fresh object with the fields of l.
CloneLandmark(l) ==
  [x |-> l.x, y |-> l.y, z |-> l.z, visibility |-> l.visibility]

\* A bug that swaps the two weights.
EmaSwapped(a, curr, prev) == (a * prev + (AlphaDen - a) * curr) \div AlphaDen

\* A sign slip in the second weight: alpha * curr + (1 + alpha) * prev.
EmaSignSlip(a, curr, prev) == (a * curr + (AlphaDen + a) * prev) \div AlphaDen

\* alpha * curr + (1 - alpha) * prev, with alpha = a / AlphaDen.
Ema(a, curr, prev) == (a * curr + (AlphaDen - a) * prev) \div AlphaDen

SmoothLandmark(a, curr, prev) ==
  [x |-> Ema(a, curr.x, prev.x),
   y |-> Ema(a, curr.y, prev.y),
   z |-> Ema(a, curr.z, prev.z),
   visibility |-> curr.visibility]

\* Refs of n objects allocated at the end of heap h.
FreshRefs(h, n) == [j \in 1..n |-> Len(h) + j]

\* A bug that keeps the caller's own landmark objects as the first frame.
AliasFirst ==
  [refs |-> frames[1].landmarks, objs |-> <<>>]

\* `frames[0].landmarks.map(l => ({ ...l }))`: one fresh object per landmark.
CopyFirst ==
  LET src == frames[1].landmarks
  IN [refs |-> FreshRefs(heap, Len(src)),
      objs |-> [j \in 1..Len(src) |-> CloneLandmark(heap[src[j]])]]

\* smoothFrames, up to the loop: empty input returns []; otherwise the first
\* frame is copied object by object.
SmoothCall ==
  /\ pc = "idle"
  /\ alpha' \in Alphas
  /\ IF Len(frames) = 0
       THEN /\ result' = Value(<<>>)
            /\ pc' = "smooth_returned"
            /\ UNCHANGED <<heap, smoothVars, i>>
       ELSE /\ heap' = heap \o CopyFirst.objs
            /\ previousLandmarks' = CopyFirst.refs
            /\ smoothedFrames' =
                 <<[timestamp |-> frames[1].timestamp, landmarks |-> CopyFirst.refs]>>
            /\ i' = 2
            /\ pc' = "smooth_loop"
            /\ UNCHANGED result
  /\ UNCHANGED <<uiVars, frames, mutated, positions, fbxVars, bvhVars>>

\* A bug that reads the frame before the current one.
CurrentFrameOffByOne == frames[i - 1]

\* `const currentFrame = frames[i]`
CurrentFrame == frames[i]

\* A bug that filters against the raw previous frame.
PrevLandmarkRaw(j) == heap[frames[i - 1].landmarks[j]]

\* `const prev = previousLandmarks[j]`: the previously emitted landmark.
PrevLandmark(j) == heap[previousLandmarks[j]]

\* One iteration of the loop over frames[1..]; reading prev.x of a landmark
\* the previous frame does not have raises a TypeError.
SmoothStep ==
  /\ pc = "smooth_loop"
  /\ i <= Len(frames)
  /\ LET cur == CurrentFrame.landmarks
         refs == FreshRefs(heap, Len(cur))
     IN IF Len(cur) > Len(previousLandmarks)
          THEN /\ result' = Throw("TypeError")
               /\ pc' = "smooth_returned"
               /\ UNCHANGED <<heap, smoothVars, i>>
          ELSE /\ heap' = heap \o
                    [j \in 1..Len(cur) |->
                       SmoothLandmark(alpha, heap[cur[j]], PrevLandmark(j))]
               /\ smoothedFrames' = Append(smoothedFrames,
                    [timestamp |-> CurrentFrame.timestamp, landmarks |-> refs])
               /\ previousLandmarks' = refs
               /\ i' = i + 1
               /\ UNCHANGED <<result, pc>>
  /\ UNCHANGED <<uiVars, frames, alpha, mutated, positions, fbxVars, bvhVars>>

SmoothReturn ==
  /\ pc = "smooth_loop"
  /\ i > Len(frames)
  /\ result' = Value(smoothedFrames)
  /\ pc' = "smooth_returned"
  /\ UNCHANGED <<uiVars, heap, frames, alpha, smoothVars, i, mutated, positions, fbxVars, bvhVars>>

\* The caller writes to a landmark object of its own input after the call.
MutatedSlots == {NOSE, LEFT_SHOULDER}
MutateInput ==
  /\ pc = "smooth_returned"
  /\ ~mutated
  /\ \E f \in 1..Len(frames), idx \in MutatedSlots :
       /\ idx < Len(frames[f].landmarks)
       /\ heap' = [heap EXCEPT ![frames[f].landmarks[idx + 1]] =
                     [x |-> @.x + Unit, y |-> @.y - Unit, z |-> @.z + 2 * Unit,
                      visibility |-> @.visibility]]
  /\ mutated' = TRUE
  /\ UNCHANGED <<uiVars, pc, frames, alpha, smoothVars, i, result, positions, fbxVars, bvhVars>>

\* ------------------------------------------------------------ generateBVH
fps == 30
scale == 100

\* Coordinate units per metre, and position units per centimetre: a position
\* is an integer v standing for v / CmDen centimetres.
LengthDen == 20 * Unit
CmDen == 2 * Unit

NoParent == "null"

\* A bug that hangs the head on a neck the positional hierarchy does not have.
jointsHeadOnNeck == <<
  [name |-> "Hips", parent |-> NoParent, mpIndex |-> -1],
  [name |-> "Spine", parent |-> "Hips", mpIndex |-> -1],
  [name |-> "Head", parent |-> "Neck", mpIndex |-> NOSE],
  [name |-> "LeftShoulder", parent |-> "Spine", mpIndex |-> LEFT_SHOULDER],
  [name |-> "LeftElbow", parent |-> "LeftShoulder", mpIndex |-> LEFT_ELBOW],
  [name |-> "LeftWrist", parent |-> "LeftElbow", mpIndex |-> LEFT_WRIST],
  [name |-> "RightShoulder", parent |-> "Spine", mpIndex |-> RIGHT_SHOULDER],
  [name |-> "RightElbow", parent |-> "RightShoulder", mpIndex |-> RIGHT_ELBOW],
  [name |-> "RightWrist", parent |-> "RightElbow", mpIndex |-> RIGHT_WRIST],
  [name |-> "LeftHip", parent |-> "Hips", mpIndex |-> LEFT_HIP],
  [name |-> "LeftKnee", parent |-> "LeftHip", mpIndex |-> LEFT_KNEE],
  [name |-> "LeftAnkle", parent |-> "LeftKnee", mpIndex |-> LEFT_ANKLE],
  [name |-> "RightHip", parent |-> "Hips", mpIndex |-> RIGHT_HIP],
  [name |-> "RightKnee", parent |-> "RightHip", mpIndex |-> RIGHT_KNEE],
  [name |-> "RightAnkle", parent |-> "RightKnee", mpIndex |-> RIGHT_ANKLE] >>

\* The positional hierarchy (mpIndex -1: a virtual joint).
joints == <<
  [name |-> "Hips", parent |-> NoParent, mpIndex |-> -1],
  [name |-> "Spine", parent |-> "Hips", mpIndex |-> -1],
  [name |-> "Head", parent |-> "Spine", mpIndex |-> NOSE],
  [name |-> "LeftShoulder", parent |-> "Spine", mpIndex |-> LEFT_SHOULDER],
  [name |-> "LeftElbow", parent |-> "LeftShoulder", mpIndex |-> LEFT_ELBOW],
  [name |-> "LeftWrist", parent |-> "LeftElbow", mpIndex |-> LEFT_WRIST],
  [name |-> "RightShoulder", parent |-> "Spine", mpIndex |-> RIGHT_SHOULDER],
  [name |-> "RightElbow", parent |-> "RightShoulder", mpIndex |-> RIGHT_ELBOW],
  [name |-> "RightWrist", parent |-> "RightElbow", mpIndex |-> RIGHT_WRIST],
  [name |-> "LeftHip", parent |-> "Hips", mpIndex |-> LEFT_HIP],
  [name |-> "LeftKnee", parent |-> "LeftHip", mpIndex |-> LEFT_KNEE],
  [name |-> "LeftAnkle", parent |-> "LeftKnee", mpIndex |-> LEFT_ANKLE],
  [name |-> "RightHip", parent |-> "Hips", mpIndex |-> RIGHT_HIP],
  [name |-> "RightKnee", parent |-> "RightHip", mpIndex |-> RIGHT_KNEE],
  [name |-> "RightAnkle", parent |-> "RightKnee", mpIndex |-> RIGHT_ANKLE] >>

\* `table.filter(j => j.parent === name)`: the names of the children of a
\* bone, in declaration order.
RECURSIVE ChildrenFrom(_, _, _)
ChildrenFrom(table, name, k) ==
  IF k > Len(table) THEN <<>>
  ELSE (IF table[k].parent = name THEN <<table[k].name>> ELSE <<>>)
         \o ChildrenFrom(table, name, k + 1)

Children(table, name) == ChildrenFrom(table, name, 1)

Line(indent, kw, nums) == [indent |-> indent, kw |-> kw, nums |-> nums]

\* writeJoint for each name of a list, at the given indentation.
RECURSIVE WriteJoints(_, _)
WriteJoints(names, indentation) ==
  IF names = <<>> THEN <<>>
  ELSE LET jointName == Head(names)
           found == {k \in 1..Len(joints) : joints[k].name = jointName}
           joint == joints[CHOOSE k \in found : \A m \in found : k <= m]
           children == Children(joints, jointName)
           open == IF joint.parent = NoParent
                     THEN <<Line(0, <<"ROOT", joint.name>>, <<>>),
                            Line(0, <<"{">>, <<>>)>>
                     ELSE <<Line(indentation, <<"JOINT", joint.name>>, <<>>),
                            Line(indentation, <<"{">>, <<>>)>>
           head == <<Line(indentation + 1, <<"OFFSET">>, <<0, 0, 0>>),
                     Line(indentation + 1,
                          <<"CHANNELS", "Xposition", "Yposition", "Zposition",
                            "Zrotation", "Xrotation", "Yrotation">>, <<6>>)>>
           body == IF Len(children) > 0
                     THEN WriteJoints(children, indentation + 1)
                     ELSE <<Line(indentation + 1, <<"End", "Site">>, <<>>),
                            Line(indentation + 1, <<"{">>, <<>>),
                            Line(indentation + 2, <<"OFFSET">>, <<0, 0, 0>>),
                            Line(indentation + 1, <<"}">>, <<>>)>>
           close == <<Line(indentation, <<"}">>, <<>>)>>
       IN (IF found = {} THEN <<>> ELSE open \o head \o body \o close)
            \o WriteJoints(Tail(names), indentation)

writeJoint(jointName) == WriteJoints(<<jointName>>, 0)

\* getPos: zero for an index outside the landmark array, else the landmark
\* with x and y negated, all axes times scale (metres to centimetres).
getPos(lm, idx) ==
  IF idx < 0 \/ idx >= Len(lm) THEN <<0, 0, 0>>
  ELSE <<-((heap[lm[idx + 1]].x * scale * CmDen) \div LengthDen),
         -((heap[lm[idx + 1]].y * scale * CmDen) \div LengthDen),
         (heap[lm[idx + 1]].z * scale * CmDen) \div LengthDen>>

Midpoint(a, b) ==
  <<(a[1] + b[1]) \div 2, (a[2] + b[2]) \div 2, (a[3] + b[3]) \div 2>>

\* The `positions` record generateBVH builds for one frame.
BVHPositions(lm) ==
  LET lHip == getPos(lm, LEFT_HIP)
      rHip == getPos(lm, RIGHT_HIP)
      lShoulder == getPos(lm, LEFT_SHOULDER)
      rShoulder == getPos(lm, RIGHT_SHOULDER)
  IN [Hips |-> Midpoint(lHip, rHip),
      Spine |-> Midpoint(lShoulder, rShoulder),
      Head |-> getPos(lm, NOSE),
      LeftShoulder |-> lShoulder,
      LeftElbow |-> getPos(lm, LEFT_ELBOW),
      LeftWrist |-> getPos(lm, LEFT_WRIST),
      RightShoulder |-> rShoulder,
      RightElbow |-> getPos(lm, RIGHT_ELBOW),
      RightWrist |-> getPos(lm, RIGHT_WRIST),
      LeftHip |-> lHip,
      LeftKnee |-> getPos(lm, LEFT_KNEE),
      LeftAnkle |-> getPos(lm, LEFT_ANKLE),
      RightHip |-> rHip,
      RightKnee |-> getPos(lm, RIGHT_KNEE),
      RightAnkle |-> getPos(lm, RIGHT_ANKLE)]

\* `v.toFixed(4)`: the value in units of 0.0001 cm, rounded to nearest.
ToFixed4(v) == RoundDiv(v * 10000, CmDen)

\* A bug that writes only the three position numbers of a bone.
BoneTokensPositionOnly(p) ==
  <<ToFixed4(p[1]), ToFixed4(p[2]), ToFixed4(p[3])>>

\* The six numbers of one bone: the position, and "0.00 0.00 0.00".
BoneTokens(p) ==
  <<ToFixed4(p[1]), ToFixed4(p[2]), ToFixed4(p[3]), 0, 0, 0>>

\* A bug that writes the siblings of a bone before its children.
RECURSIVE WriteDataSiblingsFirst(_, _)
WriteDataSiblingsFirst(names, pos) ==
  IF names = <<>> THEN <<>>
  ELSE LET jointName == Head(names)
           p == IF jointName \in DOMAIN pos THEN pos[jointName] ELSE <<0, 0, 0>>
       IN BoneTokens(p)
            \o WriteDataSiblingsFirst(Tail(names), pos)
            \o WriteDataSiblingsFirst(Children(joints, jointName), pos)

\* writeData for each name of a list: the numbers of the bone, then of its
\* children.
RECURSIVE WriteData(_, _)
WriteData(names, pos) ==
  IF names = <<>> THEN <<>>
  ELSE LET jointName == Head(names)
           p == IF jointName \in DOMAIN pos THEN pos[jointName] ELSE <<0, 0, 0>>
       IN BoneTokens(p)
            \o WriteData(Children(joints, jointName), pos)
            \o WriteData(Tail(names), pos)

writeData(jointName, pos) == WriteData(<<jointName>>, pos)

\* `if (!frames || frames.length === 0) return "";`
BVHEmpty == Value(<<>>)

\* generateBVH up to the frame loop: the empty string for no frames, else
\* the HIERARCHY block and the MOTION header.
BVHCall ==
  /\ pc = "idle"
  /\ IF Len(frames) = 0
       THEN /\ result' = BVHEmpty
            /\ pc' = "bvh_returned"
            /\ UNCHANGED <<bvh, i>>
       ELSE /\ bvh' = <<Line(0, <<"HIERARCHY">>, <<>>)>>
                      \o writeJoint("Hips")
                      \o <<Line(0, <<"MOTION">>, <<>>),
                           Line(0, <<"Frames:">>, <<Len(frames)>>),
                           Line(0, <<"Frame", "Time:">>, <<RoundDiv(1000000, fps)>>)>>
            /\ i' = 1
            /\ pc' = "bvh_loop"
            /\ UNCHANGED result
  /\ UNCHANGED <<uiVars, heap, frames, alpha, smoothVars, mutated, positions, fbxVars>>

\* One iteration of `for (const frame of frames)`: one motion line.
BVHFrame ==
  /\ pc = "bvh_loop"
  /\ i <= Len(frames)
  /\ positions' = BVHPositions(frames[i].landmarks)
  /\ bvh' = Append(bvh, Line(0, <<>>, writeData("Hips", positions')))
  /\ i' = i + 1
  /\ UNCHANGED <<uiVars, pc, heap, frames, alpha, smoothVars, result, mutated, fbxVars>>

BVHReturn ==
  /\ pc = "bvh_loop"
  /\ i > Len(frames)
  /\ result' = Value(<<>>)
  /\ pc' = "bvh_returned"
  /\ UNCHANGED <<uiVars, heap, frames, alpha, smoothVars, i, mutated, positions,
                 bvhVars, fbxVars>>

\* ------------------------------------------- THREE.Vector3 / Quaternion
\* Fixed point: QOne stands for 1.0 in unit vectors and quaternions.
QOne == 10000

RECURSIVE IsqrtIter(_, _)
IsqrtIter(n, x) ==
  LET y == (x + n \div x) \div 2
  IN IF y >= x THEN x ELSE IsqrtIter(n, y)

\* Math.sqrt, rounded to the nearest integer.
Isqrt(n) ==
  IF n <= 0 THEN 0
  ELSE LET r == IsqrtIter(n, n)
       IN IF n - r * r > r THEN r + 1 ELSE r

Max2(a, b) == IF a >= b THEN a ELSE b

VecSub(a, b) == <<a[1] - b[1], a[2] - b[2], a[3] - b[3]>>
VecAdd(a, b) == <<a[1] + b[1], a[2] + b[2], a[3] + b[3]>>

\* Vector3.normalize: the vector divided by (length() || 1), as a unit vector
\* in fixed point; components are first brought to the range of QOne.
VecNormalize(v) ==
  LET m == Max2(Abs(v[1]), Max2(Abs(v[2]), Abs(v[3])))
      pre(c) == IF m <= 100000 THEN RoundDiv(c * QOne, m)
                ELSE RoundDiv(c, m \div QOne + 1)
      s == <<pre(v[1]), pre(v[2]), pre(v[3])>>
      len == Isqrt(s[1] * s[1] + s[2] * s[2] + s[3] * s[3])
  IN IF m = 0 THEN <<0, 0, 0>>
     ELSE <<RoundDiv(s[1] * QOne, len), RoundDiv(s[2] * QOne, len),
            RoundDiv(s[3] * QOne, len)>>

\* Vector3.lerpVectors(a, b, num/10)
Lerp(a, b, num) ==
  <<a[1] + RoundDiv((b[1] - a[1]) * num, 10),
    a[2] + RoundDiv((b[2] - a[2]) * num, 10),
    a[3] + RoundDiv((b[3] - a[3]) * num, 10)>>

QuatIdentity == <<0, 0, 0, QOne>>

\* Quaternion.normalize: identity for length 0.
QuatNormalize(q) ==
  LET l == Isqrt(q[1] * q[1] + q[2] * q[2] + q[3] * q[3] + q[4] * q[4])
  IN IF l = 0 THEN QuatIdentity
     ELSE <<RoundDiv(q[1] * QOne, l), RoundDiv(q[2] * QOne, l),
            RoundDiv(q[3] * QOne, l), RoundDiv(q[4] * QOne, l)>>

\* A bug that leaves out the branch for opposite directions.
SetFromUnitVectorsNoFlip(vFrom, vTo) ==
  QuatNormalize(
    <<RoundDiv(vFrom[2] * vTo[3] - vFrom[3] * vTo[2], QOne),
      RoundDiv(vFrom[3] * vTo[1] - vFrom[1] * vTo[3], QOne),
      RoundDiv(vFrom[1] * vTo[2] - vFrom[2] * vTo[1], QOne),
      RoundDiv(vFrom[1] * vTo[1] + vFrom[2] * vTo[2] + vFrom[3] * vTo[3], QOne)
        + QOne>>)

\* Quaternion.setFromUnitVectors(vFrom, vTo): shortest arc from vFrom to vTo;
\* for opposite directions (dot + 1 below epsilon) a perpendicular axis.
SetFromUnitVectors(vFrom, vTo) ==
  LET r == RoundDiv(vFrom[1] * vTo[1] + vFrom[2] * vTo[2] + vFrom[3] * vTo[3], QOne)
             + QOne
  IN IF r < 1
       THEN IF Abs(vFrom[1]) > Abs(vFrom[3])
              THEN QuatNormalize(<<-vFrom[2], vFrom[1], 0, 0>>)
              ELSE QuatNormalize(<<0, -vFrom[3], vFrom[2], 0>>)
       ELSE QuatNormalize(
              <<RoundDiv(vFrom[2] * vTo[3] - vFrom[3] * vTo[2], QOne),
                RoundDiv(vFrom[3] * vTo[1] - vFrom[1] * vTo[3], QOne),
                RoundDiv(vFrom[1] * vTo[2] - vFrom[2] * vTo[1], QOne),
                r>>)

\* Quaternion.invert: the conjugate.
QuatInvert(q) == <<-q[1], -q[2], -q[3], q[4]>>

\* Quaternion.multiplyQuaternions(a, b) = a * b.
QuatMultiply(a, b) ==
  <<RoundDiv(a[1] * b[4] + a[4] * b[1] + a[2] * b[3] - a[3] * b[2], QOne),
    RoundDiv(a[2] * b[4] + a[4] * b[2] + a[3] * b[1] - a[1] * b[3], QOne),
    RoundDiv(a[3] * b[4] + a[4] * b[3] + a[1] * b[2] - a[2] * b[1], QOne),
    RoundDiv(a[4] * b[4] - a[1] * b[1] - a[2] * b[2] - a[3] * b[3], QOne)>>

\* ------------------------------------------------------------ generateFBX
boneMap == <<
  [name |-> "mixamorig:Hips", parent |-> NoParent],
  [name |-> "mixamorig:Spine", parent |-> "mixamorig:Hips"],
  [name |-> "mixamorig:Spine1", parent |-> "mixamorig:Spine"],
  [name |-> "mixamorig:Spine2", parent |-> "mixamorig:Spine1"],
  [name |-> "mixamorig:Neck", parent |-> "mixamorig:Spine2"],
  [name |-> "mixamorig:Head", parent |-> "mixamorig:Neck"],
  [name |-> "mixamorig:LeftShoulder", parent |-> "mixamorig:Spine2"],
  [name |-> "mixamorig:LeftArm", parent |-> "mixamorig:LeftShoulder"],
  [name |-> "mixamorig:LeftForeArm", parent |-> "mixamorig:LeftArm"],
  [name |-> "mixamorig:LeftHand", parent |-> "mixamorig:LeftForeArm"],
  [name |-> "mixamorig:RightShoulder", parent |-> "mixamorig:Spine2"],
  [name |-> "mixamorig:RightArm", parent |-> "mixamorig:RightShoulder"],
  [name |-> "mixamorig:RightForeArm", parent |-> "mixamorig:RightArm"],
  [name |-> "mixamorig:RightHand", parent |-> "mixamorig:RightForeArm"],
  [name |-> "mixamorig:LeftUpLeg", parent |-> "mixamorig:Hips"],
  [name |-> "mixamorig:LeftLeg", parent |-> "mixamorig:LeftUpLeg"],
  [name |-> "mixamorig:LeftFoot", parent |-> "mixamorig:LeftLeg"],
  [name |-> "mixamorig:RightUpLeg", parent |-> "mixamorig:Hips"],
  [name |-> "mixamorig:RightLeg", parent |-> "mixamorig:RightUpLeg"],
  [name |-> "mixamorig:RightFoot", parent |-> "mixamorig:RightLeg"] >>

BoneNames == {boneMap[k].name : k \in 1..Len(boneMap)}
RootBone == "mixamorig:Hips"

ParentOf(boneName) ==
  boneMap[CHOOSE k \in 1..Len(boneMap) : boneMap[k].name = boneName].parent

\* Rest directions from a bone to its primary child in the T-pose.
tPoseDirections ==
  ("mixamorig:Spine" :> <<0, QOne, 0>>)
  @@ ("mixamorig:Spine1" :> <<0, QOne, 0>>)
  @@ ("mixamorig:Spine2" :> <<0, QOne, 0>>)
  @@ ("mixamorig:Neck" :> <<0, QOne, 0>>)
  @@ ("mixamorig:Head" :> <<0, QOne, 0>>)
  @@ ("mixamorig:LeftShoulder" :> VecNormalize(<<1, 1, 0>>))
  @@ ("mixamorig:LeftArm" :> <<QOne, 0, 0>>)
  @@ ("mixamorig:LeftForeArm" :> <<QOne, 0, 0>>)
  @@ ("mixamorig:LeftHand" :> <<QOne, 0, 0>>)
  @@ ("mixamorig:RightShoulder" :> VecNormalize(<<-1, 1, 0>>))
  @@ ("mixamorig:RightArm" :> <<-QOne, 0, 0>>)
  @@ ("mixamorig:RightForeArm" :> <<-QOne, 0, 0>>)
  @@ ("mixamorig:RightHand" :> <<-QOne, 0, 0>>)
  @@ ("mixamorig:LeftUpLeg" :> VecNormalize(<<1, -1, 0>>))
  @@ ("mixamorig:LeftLeg" :> <<0, -QOne, 0>>)
  @@ ("mixamorig:LeftFoot" :> <<0, 0, QOne>>)
  @@ ("mixamorig:RightUpLeg" :> VecNormalize(<<-1, -1, 0>>))
  @@ ("mixamorig:RightLeg" :> <<0, -QOne, 0>>)
  @@ ("mixamorig:RightFoot" :> <<0, 0, QOne>>)

\* Landmark slots generateFBX reads with getVec.
FBXSlots == {NOSE, LEFT_SHOULDER, RIGHT_SHOULDER, LEFT_ELBOW, RIGHT_ELBOW,
             LEFT_WRIST, RIGHT_WRIST, LEFT_HIP, RIGHT_HIP, LEFT_KNEE,
             RIGHT_KNEE, LEFT_ANKLE, RIGHT_ANKLE}

\* getVec reads lm[idx].x without a bounds check: a slot the array does not
\* have is undefined, and the read raises a TypeError.
getVecThrows(lm) == \E idx \in FBXSlots : idx >= Len(lm)

\* A bug that forgets to flip the y axis.
getVecNoFlipY(lm, idx) ==
  <<-((heap[lm[idx + 1]].x * scale * CmDen) \div LengthDen),
    (heap[lm[idx + 1]].y * scale * CmDen) \div LengthDen,
    (heap[lm[idx + 1]].z * scale * CmDen) \div LengthDen>>

\* getVec for a slot the array has.
getVec(lm, idx) ==
  <<-((heap[lm[idx + 1]].x * scale * CmDen) \div LengthDen),
    -((heap[lm[idx + 1]].y * scale * CmDen) \div LengthDen),
    (heap[lm[idx + 1]].z * scale * CmDen) \div LengthDen>>

\* Centimetres as position units.
Cm(n) == n * CmDen

\* The `positions` record generateFBX builds for one frame.
FBXPositions(lm) ==
  LET lShoulder == getVec(lm, LEFT_SHOULDER)
      rShoulder == getVec(lm, RIGHT_SHOULDER)
      lHip == getVec(lm, LEFT_HIP)
      rHip == getVec(lm, RIGHT_HIP)
      hipsPos == Midpoint(lHip, rHip)
      neckPos == Midpoint(lShoulder, rShoulder)
  IN ("mixamorig:Hips" :> hipsPos)
     @@ ("mixamorig:Spine" :> Lerp(hipsPos, neckPos, 3))
     @@ ("mixamorig:Spine1" :> Lerp(hipsPos, neckPos, 6))
     @@ ("mixamorig:Spine2" :> Lerp(hipsPos, neckPos, 9))
     @@ ("mixamorig:Neck" :> neckPos)
     @@ ("mixamorig:Head" :> getVec(lm, NOSE))
     @@ ("mixamorig:LeftShoulder" :> lShoulder)
     @@ ("mixamorig:LeftArm" :> getVec(lm, LEFT_ELBOW))
     @@ ("mixamorig:LeftForeArm" :> getVec(lm, LEFT_WRIST))
     @@ ("mixamorig:LeftHand" :> VecAdd(getVec(lm, LEFT_WRIST), <<Cm(5), 0, 0>>))
     @@ ("mixamorig:RightShoulder" :> rShoulder)
     @@ ("mixamorig:RightArm" :> getVec(lm, RIGHT_ELBOW))
     @@ ("mixamorig:RightForeArm" :> getVec(lm, RIGHT_WRIST))
     @@ ("mixamorig:RightHand" :> VecAdd(getVec(lm, RIGHT_WRIST), <<Cm(-5), 0, 0>>))
     @@ ("mixamorig:LeftUpLeg" :> lHip)
     @@ ("mixamorig:LeftLeg" :> getVec(lm, LEFT_KNEE))
     @@ ("mixamorig:LeftFoot" :> getVec(lm, LEFT_ANKLE))
     @@ ("mixamorig:RightUpLeg" :> rHip)
     @@ ("mixamorig:RightLeg" :> getVec(lm, RIGHT_KNEE))
     @@ ("mixamorig:RightFoot" :> getVec(lm, RIGHT_ANKLE))

\* `boneMap.find(child => child.parent === boneName)`: the primary child, or
\* NoParent when the bone has no child.
PrimaryChild(boneName) ==
  LET cs == Children(boneMap, boneName)
  IN IF cs = <<>> THEN NoParent ELSE cs[1]

\* A bug that aims a bone without a primary child at the default up vector.
GlobalQuatDefaultUp(pos, boneName) ==
  LET child == PrimaryChild(boneName)
      vRest == IF boneName \in DOMAIN tPoseDirections
                 THEN tPoseDirections[boneName] ELSE <<0, QOne, 0>>
      vCurrent == IF child = NoParent THEN <<0, QOne, 0>>
                  ELSE VecNormalize(VecSub(pos[child], pos[boneName]))
  IN SetFromUnitVectors(vRest, vCurrent)

\* The global quaternion of one bone: identity without a primary child, else
\* the arc from the rest direction (default up) to the current direction.
GlobalQuat(pos, boneName) ==
  LET child == PrimaryChild(boneName)
      vCurrent == VecNormalize(VecSub(pos[child], pos[boneName]))
      vRest == IF boneName \in DOMAIN tPoseDirections
                 THEN tPoseDirections[boneName] ELSE <<0, QOne, 0>>
  IN IF child = NoParent THEN QuatIdentity
     ELSE SetFromUnitVectors(vRest, vCurrent)

\* A bug that treats the root like any other bone, against an identity parent
\* taken from its own global orientation.
LocalQuatRootToo(gq, boneName) ==
  LET parent == IF ParentOf(boneName) = NoParent THEN boneName
                ELSE ParentOf(boneName)
  IN QuatMultiply(QuatInvert(gq[parent]), gq[boneName])

\* A bug that multiplies by the parent's inverse on the right.
LocalQuatPostMultiply(gq, boneName) ==
  IF ParentOf(boneName) # NoParent
    THEN QuatMultiply(gq[boneName], QuatInvert(gq[ParentOf(boneName)]))
    ELSE gq[boneName]

\* qLocal: the global quaternion, premultiplied by the inverse of the
\* parent's global quaternion when the bone has a parent.
LocalQuat(gq, boneName) ==
  IF ParentOf(boneName) # NoParent
    THEN QuatMultiply(QuatInvert(gq[ParentOf(boneName)]), gq[boneName])
    ELSE gq[boneName]

\* A bug that animates the position of every bone.
PosKeysEveryBone(pos, boneName) ==
  <<pos[boneName][1], pos[boneName][2] + Cm(100), pos[boneName][3]>>

\* A bug that leaves out the vertical offset of the root.
PosKeysNoLift(pos, boneName) ==
  IF boneName = RootBone
    THEN <<pos[boneName][1], pos[boneName][2], pos[boneName][3]>>
    ELSE <<>>

\* The position keys one frame adds to a bone's pos array: the bone's position
\* lifted by 100 cm for the root, nothing for any other bone.
PosKeys(pos, boneName) ==
  IF boneName = RootBone
    THEN <<pos[boneName][1], pos[boneName][2] + Cm(100), pos[boneName][3]>>
    ELSE <<>>

\* generateFBX up to the frame loop: rejects for no frames, else prepares the
\* empty per-bone arrays.
FBXCall ==
  /\ pc = "idle"
  /\ IF Len(frames) = 0
       THEN /\ result' = Throw("Error: No frames to export")
            /\ pc' = "fbx_returned"
            /\ UNCHANGED <<tracksData, i>>
       ELSE /\ tracksData' = [b \in BoneNames |-> [pos |-> <<>>, rot |-> <<>>]]
            /\ i' = 1
            /\ pc' = "fbx_loop"
            /\ UNCHANGED result
  /\ UNCHANGED <<uiVars, heap, frames, alpha, smoothVars, mutated, positions, bvhVars,
                 globalQuats, tracks, backendCalls, thrown>>

\* One iteration of `frames.forEach`: positions, the root's position key,
\* global quaternions, local quaternions pushed to every bone's rot array.
FBXFrame ==
  /\ pc = "fbx_loop"
  /\ i <= Len(frames)
  /\ LET lm == frames[i].landmarks
     IN IF getVecThrows(lm)
          THEN /\ result' = Throw("TypeError")
               /\ pc' = "fbx_returned"
               /\ UNCHANGED <<positions, globalQuats, tracksData, i>>
          ELSE LET pos == FBXPositions(lm)
                   gq == [b \in BoneNames |-> GlobalQuat(pos, b)]
               IN /\ positions' = pos
                  /\ globalQuats' = gq
                  /\ tracksData' =
                       [b \in BoneNames |->
                          [pos |-> tracksData[b].pos \o PosKeys(pos, b),
                           rot |-> tracksData[b].rot \o LocalQuat(gq, b)]]
                  /\ i' = i + 1
                  /\ UNCHANGED <<result, pc>>
  /\ UNCHANGED <<uiVars, heap, frames, alpha, smoothVars, mutated, bvhVars, tracks,
                 backendCalls, thrown>>

Track(bone, channel, values) ==
  [bone |-> bone, channel |-> channel,
   times |-> [k \in 1..Len(frames) |-> frames[k].timestamp],
   values |-> values]

\* A bug that only gives a rotation track to bones with a primary child.
BoneTracksParentsOnly(b) ==
  (IF Len(tracksData[b].rot) > 0 /\ PrimaryChild(b) # NoParent
     THEN <<Track(b, "quaternion", tracksData[b].rot)>> ELSE <<>>)
  \o (IF Len(tracksData[b].pos) > 0
        THEN <<Track(b, "position", tracksData[b].pos)>> ELSE <<>>)

\* The tracks one bone contributes: a quaternion track when its rot array is
\* not empty, then a position track when its pos array is not empty.
BoneTracks(b) ==
  (IF Len(tracksData[b].rot) > 0
     THEN <<Track(b, "quaternion", tracksData[b].rot)>> ELSE <<>>)
  \o (IF Len(tracksData[b].pos) > 0
        THEN <<Track(b, "position", tracksData[b].pos)>> ELSE <<>>)

RECURSIVE ClipTracks(_)
ClipTracks(k) ==
  IF k > Len(boneMap) THEN <<>>
  ELSE BoneTracks(boneMap[k].name) \o ClipTracks(k + 1)

\* After the loop: the tracks of the animation clip, in boneMap order.
FBXBuildClip ==
  /\ pc = "fbx_loop"
  /\ i > Len(frames)
  /\ tracks' = ClipTracks(1)
  /\ pc' = "fbx_export"
  /\ UNCHANGED <<uiVars, heap, frames, alpha, smoothVars, i, result, mutated,
                 positions, bvhVars, tracksData, globalQuats, backendCalls, thrown>>

\* The errors the export backend can throw from parse.
BackendErrors == {"BackendError", "RangeError"}

\* A bug that rejects with an error of its own instead of the backend's.
RejectionWrapped(e) == Throw("Error")

\* The catch clause around the backend call: the promise is rejected with the
\* caught error itself.
Rejection(e) == Throw(e)

\* `exporter.parse(scene, ...)` inside the promise: the buffer resolves the
\* promise, an exception of the backend rejects it.
FBXExport ==
  /\ pc = "fbx_export"
  /\ backendCalls' = backendCalls + 1
  /\ \E outcome \in {"buffer"} \cup BackendErrors :
       /\ thrown' = IF outcome = "buffer" THEN "none" ELSE outcome
       /\ result' = IF outcome = "buffer" THEN Value(<<>>) ELSE Rejection(outcome)
  /\ pc' = "fbx_returned"
  /\ UNCHANGED <<uiVars, heap, frames, alpha, smoothVars, i, mutated, positions,
                 bvhVars, tracksData, globalQuats, tracks>>

Next ==
  \/ SmoothCall
  \/ SmoothStep
  \/ SmoothReturn
  \/ MutateInput
  \/ BVHCall
  \/ BVHFrame
  \/ BVHReturn
  \/ FBXCall
  \/ FBXFrame
  \/ FBXBuildClip
  \/ FBXExport

Spec == Init /\ [][Next]_vars

\* ------------------------------------------------- extraction to export
\* The page with no video processed yet: no frames, stage IDLE.
InitPipeline ==
  /\ pc = "ui"
  /\ heap = <<>>
  /\ frames = <<>>
  /\ alpha = 0
  /\ smoothedFrames = <<>>
  /\ previousLandmarks = <<>>
  /\ i = 0
  /\ result = NoResult
  /\ mutated = FALSE
  /\ bvh = <<>>
  /\ positions = <<>>
  /\ tracksData = <<>>
  /\ globalQuats = <<>>
  /\ tracks = <<>>
  /\ backendCalls = 0
  /\ thrown = "none"
  /\ stage = "IDLE"
  /\ duration = 0
  /\ currentTime = 0
  /\ rawFrames = <<>>
  /\ videoUrl = "blob"
  /\ poseLandmarker = "ready"
  /\ loops = <<>>
  /\ currentFrameIndex = 0
  /\ isPlaying = FALSE

\* Video durations, in sampling intervals of 1 / fps seconds; a timestamp k
\* stands for k intervals.
Durations == 0..(IF MaxTick + 1 < MaxFrames THEN MaxTick + 1 ELSE MaxFrames)

\* What detectForVideo reports for one sample: a pose, no pose, or an error.
Detections == PoseIds \cup {"nopose", "error"}

\* The world landmarks of a detected pose: always NumLandmarks fresh objects.
DetectedLandmarks(p) == [j \in 1..NumLandmarks |-> PoseLandmark(p, j - 1)]

\* A bug that repeats the last frame object when no pose is detected.
UndetectedRepeatsLast(raw) ==
  IF raw = <<>> THEN raw ELSE Append(raw, raw[Len(raw)])

\* The else branch of the detection test: the sample is skipped.
Undetected(raw) == raw

\* startProcessing up to the loop; the button is enabled in stage IDLE only.
\* Landmark objects of an earlier, failed run are unreachable and dropped.
StartProcessing ==
  /\ pc = "ui"
  /\ stage = "IDLE"
  /\ stage' = "PROCESSING_VIDEO"
  /\ duration' \in Durations
  /\ currentTime' = 0
  /\ rawFrames' = <<>>
  /\ heap' = <<>>
  /\ pc' = "extract_loop"
  /\ UNCHANGED <<pageVars, frames, alpha, smoothVars, i, result, mutated, positions,
                 bvhVars, fbxVars>>

\* One pass of the seek-and-detect loop: a detected pose is pushed with the
\* current time as its timestamp, a sample without pose is skipped, and the
\* time advances by one interval; an error ends the run in the catch clause.
ExtractStep ==
  /\ pc = "extract_loop"
  /\ currentTime < duration
  /\ \E detection \in Detections :
       IF detection = "error"
         THEN /\ stage' = "IDLE"
              /\ pc' = "ui"
              /\ UNCHANGED <<heap, rawFrames, currentTime>>
         ELSE /\ IF detection = "nopose"
                   THEN /\ rawFrames' = Undetected(rawFrames)
                        /\ UNCHANGED heap
                   ELSE /\ heap' = heap \o DetectedLandmarks(detection)
                        /\ rawFrames' =
                             Append(rawFrames,
                                    [timestamp |-> currentTime,
                                     landmarks |-> FreshRefs(heap, NumLandmarks)])
              /\ currentTime' = currentTime + 1
              /\ UNCHANGED <<stage, pc>>
  /\ UNCHANGED <<pageVars, frames, alpha, smoothVars, i, result, mutated, positions,
                 bvhVars, fbxVars, duration>>

\* The loop ends: stage SMOOTHING, and rawFrames becomes the argument of
\* smoothFrames.
ExtractFinish ==
  /\ pc = "extract_loop"
  /\ currentTime >= duration
  /\ stage' = "SMOOTHING"
  /\ frames' = rawFrames
  /\ pc' = "idle"
  /\ UNCHANGED <<pageVars, heap, alpha, smoothVars, i, result, mutated, positions,
                 bvhVars, fbxVars, duration, currentTime, rawFrames>>

\* `smoothFrames(rawFrames, 0.6)`; the factor is drawn from Alphas, which
\* holds no 0.6 but covers factors below one and the factor one.
SmoothRaw ==
  /\ stage = "SMOOTHING"
  /\ SmoothCall

\* `setFrames(smoothed); setStage(COMPLETED); setIsPlaying(true)`, or the
\* catch clause when smoothFrames threw.
SetFrames ==
  /\ pc = "smooth_returned"
  /\ stage = "SMOOTHING"
  /\ IF result.kind = "value"
       THEN /\ frames' = result.frames
            /\ stage' = "COMPLETED"
            /\ isPlaying' = TRUE
            /\ pc' = "idle"
       ELSE /\ frames' = <<>>
            /\ stage' = "IDLE"
            /\ pc' = "ui"
            /\ UNCHANGED isPlaying
  /\ result' = NoResult
  /\ UNCHANGED <<heap, alpha, smoothVars, i, mutated, positions, bvhVars,
                 fbxVars, duration, currentTime, rawFrames, videoUrl,
                 poseLandmarker, loops, currentFrameIndex>>

\* handleDownloadBVH: shown in stage COMPLETED, does nothing without frames.
DownloadBVH ==
  /\ stage = "COMPLETED"
  /\ Len(frames) # 0
  /\ BVHCall

\* handleDownloadFBX: shown in stage COMPLETED, does nothing without frames.
DownloadFBX ==
  /\ stage = "COMPLETED"
  /\ Len(frames) # 0
  /\ FBXCall

NextPipeline ==
  \/ StartProcessing
  \/ ExtractStep
  \/ ExtractFinish
  \/ SmoothRaw
  \/ SmoothStep
  \/ SmoothReturn
  \/ SetFrames
  \/ DownloadBVH
  \/ BVHFrame
  \/ BVHReturn
  \/ DownloadFBX
  \/ FBXFrame
  \/ FBXBuildClip
  \/ FBXExport

SpecPipeline == InitPipeline /\ [][NextPipeline]_vars

\* ------------------------------------------------------- MotionProcessor
\* Extraction loops the page may have in flight at once.
MaxLoops == 2

\* The mounted page: the model is being loaded, no video is selected.
InitUI ==
  /\ pc = "ui"
  /\ heap = <<>>
  /\ frames = <<>>
  /\ alpha = 0
  /\ smoothedFrames = <<>>
  /\ previousLandmarks = <<>>
  /\ i = 0
  /\ result = NoResult
  /\ mutated = FALSE
  /\ bvh = <<>>
  /\ positions = <<>>
  /\ tracksData = <<>>
  /\ globalQuats = <<>>
  /\ tracks = <<>>
  /\ backendCalls = 0
  /\ thrown = "none"
  /\ stage = "LOADING_MODEL"
  /\ duration = 0
  /\ currentTime = 0
  /\ rawFrames = <<>>
  /\ videoUrl = "null"
  /\ poseLandmarker = "loading"
  /\ loops = <<>>
  /\ currentFrameIndex = 0
  /\ isPlaying = FALSE

\* What stays as it is in every step of the page: the state of the calls to
\* smoothFrames and to the exporters, and the single loop's variables.
callVars == <<pc, heap, alpha, smoothVars, i, result, mutated, positions,
              bvhVars, fbxVars, duration, currentTime, rawFrames>>

\* Durations of the videos selected on the page, in sampling intervals.
UIDurations == 0..MaxTick

\* A frame of the page: its timestamp; the landmarks play no part here.
UIFrame(t) == [timestamp |-> t, landmarks |-> <<>>]

\* smoothFrames as the page sees it: one frame per input frame, with the
\* timestamp of the input frame.
SmoothedTimestamps(raw) == [k \in 1..Len(raw) |-> UIFrame(raw[k].timestamp)]

\* The sequence without its k-th element.
Without(seq, k) == SubSeq(seq, 1, k - 1) \o SubSeq(seq, k + 1, Len(seq))

\* loadModel ends: the landmarker is stored, or creating it failed; either
\* way the stage becomes IDLE.
LoadModel ==
  /\ poseLandmarker = "loading"
  /\ poseLandmarker' \in {"ready", "failed"}
  /\ stage' = "IDLE"
  /\ UNCHANGED <<callVars, frames, videoUrl, loops, currentFrameIndex, isPlaying>>

\* handleFileChange with a file chosen.
HandleFileChange ==
  /\ videoUrl' = "blob"
  /\ frames' = <<>>
  /\ stage' = "IDLE"
  /\ currentFrameIndex' = 0
  /\ isPlaying' = FALSE
  /\ UNCHANGED <<callVars, poseLandmarker, loops>>

\* A click on Extract Motion: the button is there once a video is selected
\* and is enabled in stage IDLE; startProcessing returns at once without the
\* landmarker, else sets the stage and enters its loop.
ClickExtract ==
  /\ videoUrl # "null"
  /\ stage = "IDLE"
  /\ poseLandmarker = "ready"
  /\ Len(loops) < MaxLoops
  /\ stage' = "PROCESSING_VIDEO"
  /\ \E d \in UIDurations :
       loops' = Append(loops, [pc |-> "loop", duration |-> d, currentTime |-> 0,
                               rawFrames |-> <<>>])
  /\ UNCHANGED <<callVars, frames, videoUrl, poseLandmarker, currentFrameIndex,
                 isPlaying>>

\* One pass of the loop of the k-th invocation, from the seek to the yield.
LoopStep(k) ==
  /\ loops[k].pc = "loop"
  /\ loops[k].currentTime < loops[k].duration
  /\ \E detection \in {"pose", "nopose", "error"} :
       IF detection = "error"
         THEN /\ stage' = "IDLE"
              /\ loops' = Without(loops, k)
         ELSE /\ loops' =
                   [loops EXCEPT
                      ![k].rawFrames =
                         IF detection = "nopose" THEN Undetected(@)
                         ELSE Append(@, UIFrame(loops[k].currentTime)),
                      ![k].currentTime = @ + 1]
              /\ UNCHANGED stage
  /\ UNCHANGED <<callVars, frames, videoUrl, poseLandmarker, currentFrameIndex,
                 isPlaying>>

\* The loop of the k-th invocation ends: stage SMOOTHING, then a wait.
LoopExit(k) ==
  /\ loops[k].pc = "loop"
  /\ loops[k].currentTime >= loops[k].duration
  /\ stage' = "SMOOTHING"
  /\ loops' = [loops EXCEPT ![k].pc = "smoothing"]
  /\ UNCHANGED <<callVars, frames, videoUrl, poseLandmarker, currentFrameIndex,
                 isPlaying>>

\* After the wait the k-th invocation smooths its frames, stores them and
\* starts the playback.
LoopComplete(k) ==
  /\ loops[k].pc = "smoothing"
  /\ frames' = SmoothedTimestamps(loops[k].rawFrames)
  /\ stage' = "COMPLETED"
  /\ isPlaying' = TRUE
  /\ loops' = Without(loops, k)
  /\ UNCHANGED <<callVars, videoUrl, poseLandmarker, currentFrameIndex>>

\* A tick of the playback interval, which runs while playing with frames.
PlaybackTick ==
  /\ isPlaying
  /\ Len(frames) > 0
  /\ currentFrameIndex' = (currentFrameIndex + 1) % Len(frames)
  /\ UNCHANGED <<callVars, frames, stage, videoUrl, poseLandmarker, loops,
                 isPlaying>>

\* The Play/Pause button, shown in stage COMPLETED.
TogglePlay ==
  /\ stage = "COMPLETED"
  /\ isPlaying' = ~isPlaying
  /\ UNCHANGED <<callVars, frames, stage, videoUrl, poseLandmarker, loops,
                 currentFrameIndex>>

NextUI ==
  \/ LoadModel
  \/ HandleFileChange
  \/ ClickExtract
  \/ \E k \in 1..Len(loops) : LoopStep(k)
  \/ \E k \in 1..Len(loops) : LoopExit(k)
  \/ \E k \in 1..Len(loops) : LoopComplete(k)
  \/ PlaybackTick
  \/ TogglePlay

SpecUI == InitUI /\ [][NextUI]_vars

\* ================================================================ claims
Range(f) == {f[k] : k \in DOMAIN f}

\* The landmark objects of a frame, by value.
FrameValues(f) == [j \in 1..Len(f.landmarks) |-> heap[f.landmarks[j]]]

InSmoothing == pc \in {"smooth_loop", "smooth_returned"}

\* ------------------------------------------------------------------- C1
\* C1 (as claimed): called with zero frames, generateBVH and generateFBX both
\* fail with an error, produce no output and do not reach the backend.
C1_EmptyInputFails ==
  (Len(frames) = 0 /\ pc \in {"bvh_returned", "fbx_returned"}) =>
    /\ result.kind = "throw"
    /\ bvh = <<>>
    /\ tracks = <<>>
    /\ backendCalls = 0

\* ------------------------------------------------------------------- C2
EmaRelation(out, raw, prev) == AlphaDen * out = alpha * raw + (AlphaDen - alpha) * prev

\* C2: for every frame after the first, every landmark and every axis, the
\* emitted coordinate is alpha * raw + (1 - alpha) * (the coordinate emitted
\* for the previous frame), and the emitted frames are what is returned.
C2_RecursiveFilter ==
  (InSmoothing /\ ~mutated) =>
    /\ (result.kind = "value" => result.frames = smoothedFrames)
    /\ \A k \in 2..Len(smoothedFrames) :
         \A j \in 1..Len(smoothedFrames[k].landmarks) :
           LET out == heap[smoothedFrames[k].landmarks[j]]
               raw == heap[frames[k].landmarks[j]]
               prev == heap[smoothedFrames[k - 1].landmarks[j]]
           IN /\ EmaRelation(out.x, raw.x, prev.x)
              /\ EmaRelation(out.y, raw.y, prev.y)
              /\ EmaRelation(out.z, raw.z, prev.z)

\* Three frames returned with alpha < 1, the second one really filtered.
C2_Witness ==
  /\ pc = "smooth_returned" /\ ~mutated
  /\ result.kind = "value" /\ Len(result.frames) >= 3
  /\ alpha < AlphaDen
  /\ \E j \in 1..Len(frames[2].landmarks) :
       heap[result.frames[2].landmarks[j]].x # heap[frames[2].landmarks[j]].x

\* ------------------------------------------------------------------- C3
UniformInput ==
  \A k \in 1..Len(frames) : Len(frames[k].landmarks) = Len(frames[1].landmarks)

\* C3: for frames of one landmark count, smoothFrames returns as many frames
\* as it was given (none for none), frame k with the timestamp and the
\* landmark count of input frame k.
C3_SameShape ==
  (pc = "smooth_returned" /\ UniformInput) =>
    /\ result.kind = "value"
    /\ Len(result.frames) = Len(frames)
    /\ \A k \in 1..Len(frames) :
         /\ result.frames[k].timestamp = frames[k].timestamp
         /\ Len(result.frames[k].landmarks) = Len(frames[k].landmarks)

C3_Witness ==
  /\ pc = "smooth_returned" /\ UniformInput
  /\ Len(frames) >= 2 /\ Len(result.frames) >= 2

\* ------------------------------------------------------------------- C4
ReturnedNonEmpty ==
  pc = "smooth_returned" /\ result.kind = "value" /\ Len(result.frames) > 0

InputRefs == UNION {Range(frames[k].landmarks) : k \in 1..Len(frames)}

FirstOut == FrameValues(result.frames[1])

\* C4: the first returned frame equals the first input frame by value, shares
\* no landmark object with the input, and a later write to the input leaves it
\* unchanged.
C4_FirstFrameCopy ==
  /\ [](ReturnedNonEmpty =>
          /\ Range(result.frames[1].landmarks) \cap InputRefs = {}
          /\ (~mutated => FirstOut = FrameValues(frames[1])))
  /\ [][ReturnedNonEmpty => FirstOut' = FirstOut]_vars

\* The caller has written to a landmark of its first frame after the call.
C4_Witness ==
  /\ ReturnedNonEmpty /\ mutated
  /\ FirstOut # FrameValues(frames[1])

\* ------------------------------------------------------------------- C5
\* C5: with alpha = 1 every emitted landmark has exactly the raw coordinates
\* of the input landmark.
C5_AlphaOneIdentity ==
  (InSmoothing /\ ~mutated /\ alpha = AlphaDen) =>
    \A k \in 1..Len(smoothedFrames) :
      \A j \in 1..Len(smoothedFrames[k].landmarks) :
        LET out == heap[smoothedFrames[k].landmarks[j]]
            raw == heap[frames[k].landmarks[j]]
        IN out.x = raw.x /\ out.y = raw.y /\ out.z = raw.z

C5_Witness ==
  /\ pc = "smooth_returned" /\ ~mutated /\ alpha = AlphaDen
  /\ result.kind = "value" /\ Len(result.frames) >= 2
  /\ \E j \in 1..Len(frames[2].landmarks) :
       heap[frames[2].landmarks[j]].y # heap[frames[1].landmarks[j]].y

\* ------------------------------------------------------------------- C6
StrictlyBetween(v, a, b) == (a < v /\ v < b) \/ (b < v /\ v < a)

\* The coordinates a claim about (previous smoothed, raw, smoothed) triples
\* ranges over: frames after the first, alpha strictly inside (0, 1).
AllTriples(P(_, _, _)) ==
  \A k \in 2..Len(smoothedFrames) :
    \A j \in 1..Len(smoothedFrames[k].landmarks) :
      LET out == heap[smoothedFrames[k].landmarks[j]]
          raw == heap[frames[k].landmarks[j]]
          prev == heap[smoothedFrames[k - 1].landmarks[j]]
      IN /\ P(out.x, prev.x, raw.x)
         /\ P(out.y, prev.y, raw.y)
         /\ P(out.z, prev.z, raw.z)

\* C6 (as claimed): for 0 < alpha < 1 every smoothed coordinate after the
\* first frame lies strictly between the previous smoothed coordinate and the
\* current raw coordinate.
C6_StrictlyBetween ==
  (InSmoothing /\ ~mutated /\ 0 < alpha /\ alpha < AlphaDen) =>
    AllTriples(StrictlyBetween)

BetweenOrEqual(v, a, b) == IF a = b THEN v = a ELSE StrictlyBetween(v, a, b)

\* C6 (amended): for 0 < alpha < 1 every smoothed coordinate after the first
\* frame lies strictly between the previous smoothed coordinate and the
\* current raw coordinate when the two differ, and equals them when they are
\* equal.
C6_BetweenOrEqual ==
  (InSmoothing /\ ~mutated /\ 0 < alpha /\ alpha < AlphaDen) =>
    AllTriples(BetweenOrEqual)

\* A coordinate whose raw value differs from the previous smoothed value.
C6_Witness ==
  /\ pc = "smooth_returned" /\ ~mutated /\ 0 < alpha /\ alpha < AlphaDen
  /\ Len(smoothedFrames) >= 2
  /\ \E j \in 1..Len(smoothedFrames[2].landmarks) :
       heap[frames[2].landmarks[j]].z # heap[smoothedFrames[1].landmarks[j]].z

\* ------------------------------------------------------------------- C7
MotionAt == CHOOSE m \in 1..Len(bvh) : bvh[m].kw = <<"MOTION">>

\* C7: for a non-empty input the MOTION block declares as many frames as the
\* input has, holds one data line per input frame, and every data line has
\* 6 * 15 = 90 numbers.
C7_MotionBlock ==
  (pc = "bvh_returned" /\ Len(frames) > 0) =>
    /\ Cardinality({m \in 1..Len(bvh) : bvh[m].kw = <<"MOTION">>}) = 1
    /\ Len(bvh) = MotionAt + 2 + Len(frames)
    /\ bvh[MotionAt + 1] = Line(0, <<"Frames:">>, <<Len(frames)>>)
    /\ bvh[MotionAt + 2].kw = <<"Frame", "Time:">>
    /\ \A m \in (MotionAt + 3)..Len(bvh) :
         /\ bvh[m].kw = <<>>
         /\ Len(bvh[m].nums) = 6 * Len(joints)
         /\ Len(bvh[m].nums) = 90

C7_Witness ==
  pc = "bvh_returned" /\ Len(frames) >= 2 /\ Len(bvh) > Len(frames)

\* ------------------------------------------------------------------- C8
\* Bones of the positional hierarchy whose landmark slot frame f lacks.
MissingJoints(f) ==
  {k \in 1..Len(joints) : joints[k].mpIndex >= Len(f.landmarks)}

\* C8 (as claimed): in both exporters a landmark slot the frame's array does
\* not have counts as the zero vector, and the export raises no error.
C8_MissingLandmarkIsZero ==
  /\ (pc \in {"bvh_loop", "bvh_returned"} /\ i > 1) =>
       /\ result.kind # "throw"
       /\ \A k \in MissingJoints(frames[i - 1]) :
            positions[joints[k].name] = <<0, 0, 0>>
  /\ (pc = "fbx_returned") => result.error # "TypeError"

\* ------------------------------------------------------------------- C9
ClipBuilt == pc = "fbx_export" \/ (pc = "fbx_returned" /\ backendCalls > 0)

BonesWithPrimaryChild == {b \in BoneNames : PrimaryChild(b) # NoParent}

\* C9 (as claimed): the clip has as many tracks as there are bones with a
\* primary child, plus one.
C9_TracksPrimaryChildren ==
  ClipBuilt => Len(tracks) = Cardinality(BonesWithPrimaryChild) + 1

\* C9 (amended): the clip has one quaternion track for each of the 20 bones
\* of the rotation hierarchy, with or without a primary child, plus the
\* root's position track: 21 tracks.
C9_TracksAllBones ==
  ClipBuilt =>
    /\ Len(tracks) = Len(boneMap) + 1
    /\ Len(tracks) = 21
    /\ \A b \in BoneNames :
         Cardinality({k \in 1..Len(tracks) :
            tracks[k].bone = b /\ tracks[k].channel = "quaternion"}) = 1

C9_Witness ==
  pc = "fbx_export" /\ Len(frames) >= 2 /\ Len(tracks) > 0

\* ------------------------------------------------------------------ C10
\* The last quaternion pushed to a bone's rot array.
LastRot(b) ==
  LET r == tracksData[b].rot
  IN <<r[Len(r) - 3], r[Len(r) - 2], r[Len(r) - 1], r[Len(r)]>>

FrameExported == pc \in {"fbx_loop", "fbx_export", "fbx_returned"} /\ i > 1

\* C10: for every frame exported, the local orientation written for the root
\* bone is its global orientation of that frame.
C10_RootLocalIsGlobal ==
  FrameExported =>
    /\ Len(tracksData[RootBone].rot) = 4 * (i - 1)
    /\ LastRot(RootBone) = globalQuats[RootBone]

\* A frame whose root orientation is not the identity has been exported.
C10_Witness ==
  /\ FrameExported /\ i > 2
  /\ globalQuats[RootBone] # QuatIdentity

\* ------------------------------------------------------------------ C11
\* A landmark coordinate given in tenths of a metre.
Tenths(n) == (n * LengthDen) \div 10

\* Frame f has the hips at (-0.1,0,0)/(0.1,0,0) and the shoulders at
\* (-0.1,0.5,0)/(0.1,0.5,0).
ScenarioFrame(f) ==
  /\ Len(f.landmarks) = NumLandmarks
  /\ LET at(idx) == <<heap[f.landmarks[idx + 1]].x, heap[f.landmarks[idx + 1]].y,
                      heap[f.landmarks[idx + 1]].z>>
     IN /\ at(LEFT_HIP) = <<Tenths(-1), 0, 0>>
        /\ at(RIGHT_HIP) = <<Tenths(1), 0, 0>>
        /\ at(LEFT_SHOULDER) = <<Tenths(-1), Tenths(5), 0>>
        /\ at(RIGHT_SHOULDER) = <<Tenths(1), Tenths(5), 0>>

ScenarioExported ==
  /\ FrameExported
  /\ Len(frames) = 2
  /\ \A k \in 1..2 : ScenarioFrame(frames[k])

\* C11 (as claimed): for the two static scenario frames the hip centre is
\* (0,0,0), the neck centre is (0,0.5,0) (half a metre up the y axis), and the
\* root's global and local orientation are the identity in both frames.
C11_ScenarioIdentity ==
  ScenarioExported =>
    /\ positions["mixamorig:Hips"] = <<0, 0, 0>>
    /\ positions["mixamorig:Neck"] = <<0, Cm(50), 0>>
    /\ globalQuats[RootBone] = QuatIdentity
    /\ LastRot(RootBone) = QuatIdentity

\* The half turn about the z axis.
HalfTurnZ == <<0, 0, QOne, 0>>

\* C11 (amended): for the two static scenario frames the hip centre is
\* (0,0,0), the neck centre is (0,-50,0) (y negated, metres to centimetres),
\* and the root's global and local orientation are both the half turn about
\* z (x,y,z,w) = (0,0,1,0) in both frames: the spine points against the rest
\* direction.
C11_ScenarioHalfTurn ==
  ScenarioExported =>
    /\ positions["mixamorig:Hips"] = <<0, 0, 0>>
    /\ positions["mixamorig:Neck"] = <<0, -Cm(50), 0>>
    /\ globalQuats[RootBone] = HalfTurnZ
    /\ LastRot(RootBone) = HalfTurnZ
    /\ Len(tracksData[RootBone].rot) = 4 * (i - 1)

\* Both scenario frames have been exported.
C11_Witness == ScenarioExported /\ i = 3

\* ------------------------------------------------------------------ C12
Cross(a, b) ==
  <<a[2] * b[3] - a[3] * b[2], a[3] * b[1] - a[1] * b[3], a[1] * b[2] - a[2] * b[1]>>

\* The unit vector v rotated by the unit quaternion q:
\* v + w * t + cross(q.xyz, t) with t = 2 * cross(q.xyz, v).
Rotate(v, q) ==
  LET u == <<q[1], q[2], q[3]>>
      c1 == Cross(u, v)
      t == <<RoundDiv(2 * c1[1], QOne), RoundDiv(2 * c1[2], QOne),
             RoundDiv(2 * c1[3], QOne)>>
      c2 == Cross(u, t)
  IN <<v[1] + RoundDiv(q[4] * t[1] + c2[1], QOne),
       v[2] + RoundDiv(q[4] * t[2] + c2[2], QOne),
       v[3] + RoundDiv(q[4] * t[3] + c2[3], QOne)>>

\* Equal up to the rounding of the fixed-point arithmetic (one thousandth).
Close(a, b) ==
  \A k \in 1..3 : Abs(a[k] - b[k]) <= QOne \div 1000

\* Bones with a rest direction and a primary child.
AimedBones ==
  {b \in BoneNames : b \in DOMAIN tPoseDirections /\ PrimaryChild(b) # NoParent}

\* The direction from bone b to its primary child in the last exported frame.
CurrentDirection(b) ==
  VecNormalize(VecSub(positions[PrimaryChild(b)], positions[b]))

Coincident(b) == positions[PrimaryChild(b)] = positions[b]

Opposite(b) ==
  CurrentDirection(b) = <<-tPoseDirections[b][1], -tPoseDirections[b][2],
                          -tPoseDirections[b][3]>>

\* C12 (as claimed): in every exported frame, for every bone with a rest
\* direction and a primary child, the rest direction rotated by the bone's
\* global quaternion is normalize(child - bone), also when the two positions
\* coincide or the directions are opposite.
C12_RotatedRestIsDirection ==
  FrameExported =>
    \A b \in AimedBones :
      Close(Rotate(tPoseDirections[b], globalQuats[b]), CurrentDirection(b))

\* C12 (amended): the same whenever the positions of the bone and of its
\* primary child differ, opposite directions included; when they coincide the
\* direction is the zero vector, the global quaternion is the identity and
\* the rotated rest direction is the rest direction.
C12_RotatedRestUnlessCoincident ==
  FrameExported =>
    \A b \in AimedBones :
      IF Coincident(b)
        THEN /\ CurrentDirection(b) = <<0, 0, 0>>
             /\ globalQuats[b] = QuatIdentity
             /\ Rotate(tPoseDirections[b], globalQuats[b]) = tPoseDirections[b]
        ELSE Close(Rotate(tPoseDirections[b], globalQuats[b]), CurrentDirection(b))

\* A frame with a bone pointing against its rest direction, a bone at the
\* place of its child, and a bone turned by some other angle.
C12_Witness ==
  /\ FrameExported
  /\ \E b \in AimedBones : ~Coincident(b) /\ Opposite(b)
  /\ \E b \in AimedBones : Coincident(b)
  /\ \E b \in AimedBones :
       /\ ~Coincident(b) /\ ~Opposite(b)
       /\ globalQuats[b] # QuatIdentity

\* ------------------------------------------------------------------ C13
PositionTracks == {k \in 1..Len(tracks) : tracks[k].channel = "position"}

\* C13: no bone other than mixamorig:Hips ever gets position keys, and the
\* clip holds exactly one position track, the root's, with one key of three
\* numbers per frame.
C13_OnlyRootPositionTrack ==
  /\ (pc \in {"fbx_loop", "fbx_export", "fbx_returned"} /\ Len(frames) > 0) =>
       \A b \in BoneNames \ {RootBone} : tracksData[b].pos = <<>>
  /\ ClipBuilt =>
       /\ \A k \in PositionTracks : tracks[k].bone = RootBone
       /\ Cardinality(PositionTracks) = 1
       /\ \A k \in PositionTracks : Len(tracks[k].values) = 3 * Len(frames)

C13_Witness ==
  /\ pc = "fbx_export" /\ Len(frames) >= 2
  /\ PositionTracks # {}

\* ------------------------------------------------------------------ C14
\* The k-th key of the root's pos array.
RootKey(k) ==
  LET a == tracksData[RootBone].pos
  IN <<a[3 * k - 2], a[3 * k - 1], a[3 * k]>>

\* The landmarks of the two hips of a frame, by value.
HipLandmarks(f) ==
  <<heap[f.landmarks[LEFT_HIP + 1]], heap[f.landmarks[RIGHT_HIP + 1]]>>

C15_BackendErrorPropagates ==
  (pc = "fbx_returned" /\ thrown # "none") =>
    /\ result.kind = "throw"
    /\ result.error = thrown
    /\ backendCalls = 1

C15_Witness ==
  /\ pc = "fbx_returned"
  /\ thrown = "RangeError"
  /\ result.kind = "throw"

\* ------------------------------------------------------------------ C16
NonRootBones == BoneNames \ {RootBone}

\* Two quaternions agree in (x, y, z, w) up to the rounding of the arithmetic.
QuatClose(a, b) ==
  \A k \in 1..4 : Abs(a[k] - b[k]) <= QOne \div 1000

\* C16: for every frame exported and every bone with a parent, the four
\* numbers written to the bone's rotation track are, in (x, y, z, w) order,
\* inverse(parent's global) * (bone's global); composing them with the
\* parent's global orientation gives back the bone's global orientation.
C16_LocalIsParentRelative ==
  FrameExported =>
    \A b \in NonRootBones :
      /\ Len(tracksData[b].rot) = 4 * (i - 1)
      /\ LastRot(b) = QuatMultiply(QuatInvert(globalQuats[ParentOf(b)]),
                                   globalQuats[b])
      /\ QuatClose(QuatMultiply(globalQuats[ParentOf(b)], LastRot(b)),
                   globalQuats[b])

\* A bone whose parent and itself are both rotated, about different axes.
C16_Witness ==
  /\ FrameExported
  /\ \E b \in NonRootBones :
       /\ globalQuats[ParentOf(b)] # QuatIdentity
       /\ globalQuats[b] # QuatIdentity
       /\ LastRot(b) # globalQuats[b]
       /\ LastRot(b) # QuatIdentity

\* ------------------------------------------------------------------ C17
ChildlessBones == {b \in BoneNames : PrimaryChild(b) = NoParent}

\* C17: the bones without a child are Head, LeftHand, RightHand, LeftFoot and
\* RightFoot, and in every frame exported their global orientation is the
\* identity, whatever the landmarks.
C17_ChildlessBonesIdentity ==
  /\ ChildlessBones = {"mixamorig:Head", "mixamorig:LeftHand",
                       "mixamorig:RightHand", "mixamorig:LeftFoot",
                       "mixamorig:RightFoot"}
  /\ FrameExported =>
       \A b \in ChildlessBones : globalQuats[b] = QuatIdentity

\* A frame in which the parent of a childless bone is rotated, so that the
\* bone's local orientation is not the identity although its global one is.
C17_Witness ==
  /\ FrameExported
  /\ \E b \in ChildlessBones :
       /\ globalQuats[ParentOf(b)] # QuatIdentity
       /\ LastRot(b) # QuatIdentity
       /\ globalQuats[b] = QuatIdentity

\* ------------------------------------------------------------------ C18
TableNames(table) == {table[k].name : k \in 1..Len(table)}

TableRoots(table) == {k \in 1..Len(table) : table[k].parent = NoParent}

\* The parent recorded for a name of the table.
TableParent(table, name) ==
  table[CHOOSE k \in 1..Len(table) : table[k].name = name].parent

\* Following parent links from name reaches a bone without parent within
\* `steps` links; a cycle never does.
RECURSIVE ReachesRoot(_, _, _)
ReachesRoot(table, name, steps) ==
  IF TableParent(table, name) = NoParent THEN TRUE
  ELSE IF steps = 0 \/ TableParent(table, name) \notin TableNames(table) THEN FALSE
  ELSE ReachesRoot(table, TableParent(table, name), steps - 1)

IsTree(table) ==
  /\ Cardinality(TableNames(table)) = Len(table)
  /\ Cardinality(TableRoots(table)) = 1
  /\ \A k \in 1..Len(table) :
       table[k].parent # NoParent => table[k].parent \in TableNames(table)
  /\ \A name \in TableNames(table) : ReachesRoot(table, name, Len(table))

\* The names the HIERARCHY block written so far declares, in order.
DeclaredJoints ==
  LET decl == SelectSeq(bvh, LAMBDA l : Len(l.kw) = 2 /\ l.kw[1] \in {"ROOT", "JOINT"})
  IN [k \in 1..Len(decl) |-> decl[k].kw[2]]

\* C18: the positional table has 15 bones and the rotation table 20, each
\* with unique names, one bone without parent, every other parent in the same
\* table and every bone linked to the root without a cycle; the hierarchy
\* generateBVH writes from the root therefore declares each of the 15 bones
\* once, and generateFBX keeps tracks for each of the 20.
C18_TablesAreTrees ==
  /\ Len(joints) = 15 /\ IsTree(joints)
  /\ Len(boneMap) = 20 /\ IsTree(boneMap)
  /\ (pc \in {"bvh_loop", "bvh_returned"} /\ Len(frames) > 0) =>
       /\ Len(DeclaredJoints) = 15
       /\ Range(DeclaredJoints) = TableNames(joints)
  /\ (pc \in {"fbx_loop", "fbx_export", "fbx_returned"} /\ Len(frames) > 0) =>
       DOMAIN tracksData = TableNames(boneMap)

C18_Witness ==
  /\ pc = "bvh_returned" /\ Len(frames) > 0
  /\ DeclaredJoints # <<>>
  /\ DeclaredJoints[1] = "Hips"

\* ------------------------------------------------------------------ C19
\* The pre-order traversal of a table from a list of names: a bone, then the
\* traversal of its children in declaration order, then the rest of the list.
RECURSIVE PreOrder(_, _)
PreOrder(table, names) ==
  IF names = <<>> THEN <<>>
  ELSE <<Head(names)>> \o PreOrder(table, Children(table, Head(names)))
                       \o PreOrder(table, Tail(names))

\* The data lines of the MOTION block written so far.
MotionLines == SelectSeq(bvh, LAMBDA l : l.kw = <<>>)

\* The k-th group of six numbers of a data line.
Group(nums, k) == SubSeq(nums, 6 * k - 5, 6 * k)

\* C19: the HIERARCHY block declares the bones in pre-order from Hips, and on
\* the data line of every frame the k-th group of six numbers is the position
\* and the zero rotation of the k-th bone declared, computed for that frame.
C19_MotionOrderIsHierarchyOrder ==
  (pc \in {"bvh_loop", "bvh_returned"} /\ Len(frames) > 0) =>
    /\ DeclaredJoints = PreOrder(joints, <<"Hips">>)
    /\ Len(MotionLines) = i - 1
    /\ \A m \in 1..Len(MotionLines) :
         /\ Len(MotionLines[m].nums) = 6 * Len(DeclaredJoints)
         /\ \A k \in 1..Len(DeclaredJoints) :
              Group(MotionLines[m].nums, k) =
                BoneTokens(BVHPositions(frames[m].landmarks)[DeclaredJoints[k]])

\* Two data lines written for different poses, the bones at different places.
C19_Witness ==
  /\ pc = "bvh_returned" /\ Len(MotionLines) >= 2
  /\ MotionLines[1].nums # MotionLines[2].nums
  /\ \E k \in 2..Len(DeclaredJoints) :
       Group(MotionLines[1].nums, k) # Group(MotionLines[1].nums, k - 1)

\* ------------------------------------------------------------------ C20
Timestamps(fs) == [k \in 1..Len(fs) |-> fs[k].timestamp]

StrictlyIncreasing(t) == \A k \in 2..Len(t) : t[k - 1] < t[k]

NonDecreasing(t) == \A k \in 2..Len(t) : t[k - 1] <= t[k]

\* C20: the frames the extraction loop has collected, the frames smoothFrames
\* makes of them and the frames handed to the exporters all have strictly
\* increasing timestamps, those of the samples in which a pose was detected,
\* and the times of every keyframe track built are these timestamps, hence
\* non-decreasing.
C20_TimestampsIncrease ==
  /\ StrictlyIncreasing(Timestamps(rawFrames))
  /\ \A k \in 1..Len(rawFrames) : rawFrames[k].timestamp < currentTime
  /\ stage \in {"SMOOTHING", "COMPLETED"} =>
       /\ Timestamps(frames) = Timestamps(rawFrames)
       /\ StrictlyIncreasing(Timestamps(frames))
  /\ result.kind = "value" => StrictlyIncreasing(Timestamps(result.frames))
  /\ \A k \in 1..Len(tracks) :
       /\ tracks[k].times = Timestamps(frames)
       /\ tracks[k].times # <<>>
       /\ NonDecreasing(tracks[k].times)

\* Tracks built from frames between which a sample without pose was skipped.
C20_Witness ==
  /\ pc = "fbx_export" /\ tracks # <<>>
  /\ Len(frames) >= 2
  /\ \E k \in 2..Len(frames) : frames[k].timestamp > frames[k - 1].timestamp + 1

\* ------------------------------------------------------------------ C21
\* The invocations of startProcessing that are in the seek-and-detect loop of
\* a video with at least one sample.
LoopsInFlight ==
  {k \in 1..Len(loops) : loops[k].pc = "loop" /\ loops[k].duration > 0}

\* C21 (as claimed): at most one extraction loop is in flight at any time,
\* whatever the order of file selections, clicks on Extract Motion and steps
\* of the loop.
C21_SingleLoopInFlight ==
  Cardinality(LoopsInFlight) <= 1

\* ------------------------------------------------------------------ C22
\* C22 (as claimed): whenever the frame list is non-empty, currentFrameIndex
\* is smaller than the number of frames.
C22_IndexInRange ==
  Len(frames) > 0 => currentFrameIndex < Len(frames)

====
